---- MODULE Spec2Model ----
(***************************************************************************)
(* Quotation revision / delete / export handlers, driver provisioning and  *)
(* the accepted-orders listing, together with the retry and timeout        *)
(* wrappers they run their statements through, over a small model of the   *)
(* database sessions the statements are sent to.                           *)
(***************************************************************************)
EXTENDS Integers, Sequences, FiniteSets, TLC

VARIABLES db, queue, req, clerk, budget, init

vars == <<db, queue, req, clerk, budget, init>>

Reqs == {1, 2}

(* ---------------------------------------------------------------------- *)
(* Bounds of the model: how many caller-side timeouts, injected statement  *)
(* errors and never-completing sessions one run may contain.               *)
(* ---------------------------------------------------------------------- *)
MaxTimeouts == 4
MaxErrors == 1
MaxStalls == 1
MaxTimeoutsConc == 1
MaxErrorsPool == 2

(* ---------------------------------------------------------------------- *)
(* executeWithRetry's defaults.                                            *)
(* ---------------------------------------------------------------------- *)
Retries == 3
InitialDelay == 1000

(* ---------------------------------------------------------------------- *)
(* custom_id strings are sequences of one-character strings.               *)
(* ---------------------------------------------------------------------- *)
Digits == <<"0", "1", "2", "3", "4", "5", "6", "7", "8", "9">>

IsDigit(ch) == \E d \in 1..10 : Digits[d] = ch

DigitVal(ch) == (CHOOSE d \in 1..10 : Digits[d] = ch) - 1

\* length of the longest run of digits ending the string (the \d+$ of the pattern)
RECURSIVE TrailingDigits(_)
TrailingDigits(s) ==
    IF s = <<>> \/ ~IsDigit(s[Len(s)]) THEN 0
    ELSE 1 + TrailingDigits(SubSeq(s, 1, Len(s) - 1))

\* parseInt(digits, 10)
RECURSIVE ParseInt(_)
ParseInt(ds) ==
    IF ds = <<>> THEN 0
    ELSE 10 * ParseInt(SubSeq(ds, 1, Len(ds) - 1)) + DigitVal(ds[Len(ds)])

\* the decimal rendering a template literal gives a number
RECURSIVE ToDigits(_)
ToDigits(n) ==
    IF n < 10 THEN <<Digits[n + 1]>>
    ELSE ToDigits(n \div 10) \o <<Digits[(n % 10) + 1]>>

\* currentCustomId.match(/Rev(\d+)$/)
RevisionMatch(s) ==
    LET d == TrailingDigits(s)
    IN  /\ d > 0
        /\ Len(s) >= d + 3
        /\ SubSeq(s, Len(s) - d - 2, Len(s) - d) = <<"R", "e", "v">>

\* the newCustomId derived from the custom_id that was read
NextCustomId(s) ==
    IF RevisionMatch(s)
    THEN LET d == TrailingDigits(s)
             currentRevision == ParseInt(SubSeq(s, Len(s) - d + 1, Len(s)))
         IN  SubSeq(s, 1, Len(s) - d) \o ToDigits(currentRevision + 1)
    ELSE s \o <<" ", "R", "e", "v", "1">>

(* ---------------------------------------------------------------------- *)
(* Incoming price and quantity values: a number, a string, or absent.      *)
(* ---------------------------------------------------------------------- *)
\* v holds the characters of the value as sent
Missing == [t |-> "missing", v |-> <<>>]
Num(ds) == [t |-> "num", v |-> ds]
Str(s) == [t |-> "str", v |-> s]

\* parseFloat: the number formed by the digits the value starts with, or NaN
RECURSIVE LeadingDigits(_)
LeadingDigits(s) ==
    IF s = <<>> \/ ~IsDigit(s[1]) THEN <<>>
    ELSE <<s[1]>> \o LeadingDigits(SubSeq(s, 2, Len(s)))

ParseFloat(x) ==
    CASE x.t = "num" -> [nan |-> FALSE, v |-> ParseInt(x.v)]
      [] x.t = "str" -> IF LeadingDigits(x.v) = <<>> THEN [nan |-> TRUE, v |-> 0]
                        ELSE [nan |-> FALSE, v |-> ParseInt(LeadingDigits(x.v))]
      [] OTHER -> [nan |-> TRUE, v |-> 0]

NumericOrOne(x) == IF ParseFloat(x).nan THEN 1 ELSE ParseFloat(x).v

\* parseFloat(value) || 0
NumericOr0(x) == IF ParseFloat(x).nan THEN 0 ELSE ParseFloat(x).v

(* Money is kept in hundredths, so that the 15% VAT of a whole amount is   *)
(* exact: an amount a is stored as 100 * a.                                *)
TotalPriceForProduct(p) == 100 * NumericOr0(p.price) * NumericOr0(p.quantity)

\* totalPriceForProduct * 0.15
VatOf(x) == (x * 15) \div 100

SubtotalOf(x) == x + VatOf(x)

\* the loop over products accumulating totalPrice, totalVat, totalSubtotal
RECURSIVE Totals(_)
Totals(products) ==
    IF products = <<>> THEN [price |-> 0, vat |-> 0, subtotal |-> 0]
    ELSE LET rest == Totals(SubSeq(products, 1, Len(products) - 1))
             x    == TotalPriceForProduct(products[Len(products)])
         IN  [price    |-> rest.price + x,
              vat      |-> rest.vat + VatOf(x),
              subtotal |-> rest.subtotal + SubtotalOf(x)]

(* ---------------------------------------------------------------------- *)
(* The handlers' statements, by the place in the handler that sends them.  *)
(* ---------------------------------------------------------------------- *)
Stmt(loc) ==
    CASE loc = "begin"    -> "BEGIN"
      [] loc = "select"   -> "SELECT_CUSTOM_ID"
      [] loc = "rb404"    -> "ROLLBACK"
      [] loc = "update"   -> "UPDATE_QUOTATION"
      [] loc = "delitems" -> "DELETE_PRODUCTS"
      [] loc = "insert"   -> "INSERT_PRODUCT"
      [] loc = "commit"   -> "COMMIT"
      [] loc = "catch"    -> "ROLLBACK"
      [] loc = "export"   -> "MARK_EXPORTED"
      [] loc = "d_items"  -> "DELETE_PRODUCTS"
      [] loc = "d_hdr"    -> "DELETE_QUOTATION"
      [] loc = "chk"      -> "SELECT_DRIVER"
      [] loc = "clerk"    -> "CLERK_CREATE_USER"
      [] loc = "ins"      -> "INSERT_DRIVER"
      [] loc = "list"     -> "SELECT_DRIVERS"
      [] loc = "count"    -> "COUNT_ORDERS"
      [] loc = "olist"    -> "SELECT_ORDERS"
      [] loc = "loc"      -> "SELECT_LOCATIONS"
      [] loc = "g_hdr"    -> "SELECT_QUOTATION"
      [] loc = "g_items"  -> "SELECT_PRODUCTS"
      [] loc = "g_rep"    -> "SELECT_SALESREP"

\* the statements wrapped in withTimeout(..., 10000)
Timed(kind, loc) ==
    CASE kind = "put"    -> loc \in {"select", "update", "delitems", "insert"}
      [] kind = "orders" -> FALSE
      [] OTHER           -> TRUE

\* the statements wrapped in an executeWithRetry of their own
Retried(kind, loc) ==
    CASE kind = "put"    -> loc \in {"select", "update", "delitems", "insert"}
      [] kind = "orders" -> loc \in {"count", "olist"}
      [] OTHER           -> TRUE

AutoPoolUpdate(kind, loc) == kind \in {"del", "get"} \/ loc \in {"clerk", "update"}

AutoPoolInsert(kind, loc) == kind \in {"del", "get"} \/ loc \in {"clerk", "insert"}

\* pool.query (any idle connection, autocommit) rather than client.query
Auto(kind, loc) == kind \in {"del", "get"} \/ loc = "clerk"

(* ---------------------------------------------------------------------- *)
(* The database: the quotation header row, an uncommitted version of it    *)
(* held by the transaction that locked it, the quotation_products rows     *)
(* (ins/del name the transaction that inserted/deleted a row and has not   *)
(* ended; 0 when committed), each client connection's transaction state,   *)
(* the drivers table and the number of accepted orders.                    *)
(* ---------------------------------------------------------------------- *)
NoHeader ==
    [ex |-> FALSE, cid |-> <<>>, by |-> 0, price |-> 0, vat |-> 0, subtotal |-> 0,
     sk |-> "", sv |-> "", mg |-> "", exported |-> FALSE]

NoPending == [own |-> 0, row |-> NoHeader]

TxOf(d, s) == IF s.auto THEN "none" ELSE d.tx[s.c]

\* the transaction a statement's writes belong to; 0 when they commit at once
Me(d, s) == IF TxOf(d, s) = "open" THEN s.c ELSE 0

\* the header version a statement sees: its own uncommitted one, else the committed
VisibleHeader(d, s) ==
    IF d.hp.own # 0 /\ d.hp.own = Me(d, s) THEN d.hp.row ELSE d.hdr

VisibleRow(d, s, row) == row.ins \in {0, Me(d, s)} /\ (row.del = 0 \/ row.del # Me(d, s))

\* a write waits for the row lock another transaction holds
Blocked(d, s) ==
    /\ TxOf(d, s) # "aborted"
    /\ CASE Stmt(s.loc) \in {"UPDATE_QUOTATION", "MARK_EXPORTED", "DELETE_QUOTATION"} ->
              d.hp.own # 0 /\ d.hp.own # Me(d, s)
         [] Stmt(s.loc) = "DELETE_PRODUCTS" ->
              \E i \in 1..Len(d.rows) :
                  /\ d.rows[i].ins \in {0, Me(d, s)}
                  /\ d.rows[i].del # 0
                  /\ d.rows[i].del # Me(d, s)
         [] OTHER -> FALSE

RECURSIVE KeepRows(_, _, _)
KeepRows(rows, c, committing) ==
    IF rows = <<>> THEN <<>>
    ELSE LET row  == rows[1]
             rest == KeepRows(SubSeq(rows, 2, Len(rows)), c, committing)
         IN  IF committing
             THEN IF row.del = c THEN rest
                  ELSE <<[row EXCEPT !.ins = IF @ = c THEN 0 ELSE @]>> \o rest
             ELSE IF row.ins = c THEN rest
                  ELSE <<[row EXCEPT !.del = IF @ = c THEN 0 ELSE @]>> \o rest

\* COMMIT of connection c's transaction
CommitTx(d, c) ==
    [d EXCEPT !.hdr  = IF d.hp.own = c THEN d.hp.row ELSE @,
              !.hp   = IF d.hp.own = c THEN NoPending ELSE @,
              !.rows = KeepRows(@, c, TRUE),
              !.tx[c] = "none"]

\* ROLLBACK, or the abort a failed statement causes: c's writes are dropped
DiscardTx(d, c, state) ==
    [d EXCEPT !.hp   = IF d.hp.own = c THEN NoPending ELSE @,
              !.rows = KeepRows(@, c, FALSE),
              !.tx[c] = state]

ApprovalResetSupervisorOnly(h) == [h EXCEPT !.sv = "pending"]

\* storekeeperaccept, supervisoraccept and manageraccept of the UPDATE's SET list
ApprovalReset(h) == [h EXCEPT !.sk = "pending", !.sv = "pending", !.mg = "pending"]

\* the row the UPDATE of the revision write leaves
UpdatedHeader(h, s, q) ==
    LET t == Totals(q.body)
    IN  ApprovalReset([h EXCEPT !.cid = s.cid, !.by = s.c, !.price = t.price,
                                !.vat = t.vat, !.subtotal = t.subtotal])

\* the row the INSERT of product k of the request writes
ProductRow(d, s, q) ==
    LET p == q.body[s.k]
        x == TotalPriceForProduct(p)
    IN  [by |-> s.c, k |-> s.k, price |-> p.price, quantity |-> p.quantity,
         vat |-> VatOf(x), subtotal |-> SubtotalOf(x), ins |-> Me(d, s), del |-> 0]

RECURSIVE DeleteVisible(_, _, _)
DeleteVisible(rows, d, s) ==
    IF rows = <<>> THEN <<>>
    ELSE LET row  == rows[1]
             rest == DeleteVisible(SubSeq(rows, 2, Len(rows)), d, s)
         IN  IF ~VisibleRow(d, s, row) THEN <<row>> \o rest
             ELSE IF Me(d, s) = 0 \/ row.ins = Me(d, s) THEN rest
             ELSE <<[row EXCEPT !.del = Me(d, s)]>> \o rest

CountEmail(drivers, email) ==
    Cardinality({i \in 1..Len(drivers) : drivers[i].email = email})

\* a statement's result: the number of rows returned or affected, and of the
\* rows returned the columns the handlers use
Result(n, cid) == [rows |-> n, cid |-> cid, hdr |-> NoHeader, items |-> <<>>]

\* the committed line items, as a statement outside any transaction reads them
RECURSIVE CommittedRows(_)
CommittedRows(rows) ==
    IF rows = <<>> THEN <<>>
    ELSE IF rows[1].ins = 0
         THEN <<[rows[1] EXCEPT !.del = 0]>> \o CommittedRows(SubSeq(rows, 2, Len(rows)))
         ELSE CommittedRows(SubSeq(rows, 2, Len(rows)))

MarkExportedFlip(h) == [h EXCEPT !.exported = ~@]

\* SET exported = 'TRUE'
MarkExported(h) == [h EXCEPT !.exported = TRUE]

(* What executing statement s does: the database after it and the result   *)
(* handed back (rows: the number of rows returned or affected).            *)
Apply(d, s, q) ==
    LET st == Stmt(s.loc)
        v  == VisibleHeader(d, s)
    IN  CASE st = "BEGIN" ->
               [db |-> [d EXCEPT !.tx[s.c] = "open"], res |-> Result(0, <<>>)]
          [] st = "COMMIT" ->
               [db |-> CommitTx(d, s.c), res |-> Result(0, <<>>)]
          [] st = "ROLLBACK" ->
               [db |-> DiscardTx(d, s.c, "none"), res |-> Result(0, <<>>)]
          [] st = "SELECT_CUSTOM_ID" ->
               [db |-> d, res |-> Result(IF v.ex THEN 1 ELSE 0, v.cid)]
          [] st = "UPDATE_QUOTATION" ->
               [db |-> IF ~v.ex THEN d
                       ELSE IF Me(d, s) = 0 THEN [d EXCEPT !.hdr = UpdatedHeader(v, s, q)]
                       ELSE [d EXCEPT !.hp = [own |-> Me(d, s), row |-> UpdatedHeader(v, s, q)]],
                res |-> Result(IF v.ex THEN 1 ELSE 0, <<>>)]
          [] st = "MARK_EXPORTED" ->
               [db |-> IF ~v.ex THEN d
                       ELSE IF Me(d, s) = 0 THEN [d EXCEPT !.hdr = MarkExported(v)]
                       ELSE [d EXCEPT !.hp = [own |-> Me(d, s), row |-> MarkExported(v)]],
                res |-> Result(IF v.ex THEN 1 ELSE 0, <<>>)]
          [] st = "DELETE_QUOTATION" ->
               [db |-> [d EXCEPT !.hdr = NoHeader],
                res |-> Result(IF v.ex THEN 1 ELSE 0, <<>>)]
          [] st = "DELETE_PRODUCTS" ->
               [db |-> [d EXCEPT !.rows = DeleteVisible(@, d, s)], res |-> Result(0, <<>>)]
          [] st = "INSERT_PRODUCT" ->
               [db |-> [d EXCEPT !.rows = Append(@, ProductRow(d, s, q))],
                res |-> Result(1, <<>>)]
          [] st = "SELECT_DRIVER" ->
               [db |-> d, res |-> Result(CountEmail(d.drivers, q.input.email), <<>>)]
          [] st = "INSERT_DRIVER" ->
               [db |-> [d EXCEPT !.drivers = Append(@, [email |-> q.input.email, by |-> s.c])],
                res |-> Result(1, <<>>)]
          [] st = "SELECT_QUOTATION" ->
               [db |-> d, res |-> [Result(IF v.ex THEN 1 ELSE 0, v.cid) EXCEPT !.hdr = v]]
          [] st = "SELECT_PRODUCTS" ->
               [db |-> d, res |-> [Result(Len(CommittedRows(d.rows)), <<>>)
                                      EXCEPT !.items = CommittedRows(d.rows)]]
          [] st = "SELECT_DRIVERS" ->
               [db |-> d, res |-> Result(Len(d.drivers), <<>>)]
          [] st \in {"COUNT_ORDERS", "SELECT_ORDERS", "SELECT_LOCATIONS"} ->
               [db |-> d, res |-> Result(d.orders, <<>>)]
          [] OTHER ->
               [db |-> d, res |-> Result(1, <<>>)]

\* inside a failed transaction every statement but COMMIT and ROLLBACK is refused
Refused(d, s) == TxOf(d, s) = "aborted" /\ Stmt(s.loc) \notin {"COMMIT", "ROLLBACK"}

\* the database after a statement failed
AfterError(d, s) ==
    IF s.auto THEN d
    ELSE IF Stmt(s.loc) \in {"COMMIT", "ROLLBACK"} THEN DiscardTx(d, s.c, "none")
    ELSE IF d.tx[s.c] = "open" THEN DiscardTx(d, s.c, "aborted")
    ELSE d

(* ---------------------------------------------------------------------- *)
(* A request: where its handler is (pc: the statement it last sent; ph:    *)
(* new, wait, sleep, osleep, fin, done), the statement it awaits (aw), the *)
(* retries and delay left to the executeWithRetry around the statement     *)
(* (ir, idl) and to the one around the transaction body (orr, odl), its    *)
(* locals (ncid: newCustomId, i: product index, ghdr and gitems: the rows  *)
(* the read of a quotation has fetched), its response (code, rkeys: the    *)
(* fields of the JSON object sent, rcid: its custom_id), and its           *)
(* pooled connection (acq: clients taken from the pool, held, nrel:        *)
(* releases so far).                                                       *)
(* ---------------------------------------------------------------------- *)
Undefined == "undefined"

\* the body of a registration: name, email, phone (an empty sequence where the
\* field is missing or empty) and role
NoInput == [name |-> <<>>, email |-> <<>>, phone |-> <<>>, role |-> Undefined]

IsSpace(c) == c = " "

\* /^[^\s@]+@[^\s@]+\.[^\s@]+$/
emailRegex(s) ==
    /\ \A k \in 1..Len(s) : ~IsSpace(s[k])
    /\ Cardinality({k \in 1..Len(s) : s[k] = "@"}) = 1
    /\ \E a \in 2..Len(s) :
          /\ s[a] = "@"
          /\ \E d \in (a + 2)..(Len(s) - 1) : s[d] = "."

\* /^\+?[\d\s-]{8,}$/
phoneRegex(s) ==
    LET rest == IF Len(s) > 0 /\ s[1] = "+" THEN Tail(s) ELSE s
    IN  /\ Len(rest) >= 8
        /\ \A k \in 1..Len(rest) : IsDigit(rest[k]) \/ IsSpace(rest[k]) \/ rest[k] = "-"

validRoles == {"driver", "admin", "dispatcher"}

\* const { ..., role = 'driver' } = req.body
RoleOf(input) == IF input.role = Undefined THEN "driver" ELSE input.role

AcceptsAnyPhone(input) ==
    /\ input.name # <<>> /\ input.email # <<>> /\ input.phone # <<>>
    /\ RoleOf(input) \in validRoles
    /\ emailRegex(input.email)

\* the three checks the registration makes on its body before any statement
Accepts(input) ==
    /\ input.name # <<>> /\ input.email # <<>> /\ input.phone # <<>>
    /\ RoleOf(input) \in validRoles
    /\ emailRegex(input.email) /\ phoneRegex(input.phone)

NoRequest ==
    [kind |-> "none", pc |-> "", ph |-> "done", aw |-> 0, n |-> 0,
     ir |-> 0, idl |-> 0, orr |-> 0, odl |-> 0, ncid |-> <<>>, i |-> 0,
     code |-> 0, rkeys |-> {}, rcid |-> <<>>, nresp |-> 0, held |-> FALSE, nrel |-> 0,
     ghdr |-> NoHeader, gitems |-> <<>>,
     acq |-> 0, exc |-> FALSE, body |-> <<>>, input |-> NoInput, clerkId |-> FALSE,
     subs |-> <<>>, waits |-> <<>>, owaits |-> <<>>]

NewRequest(kind, body, input, clerkId) ==
    [NoRequest EXCEPT !.kind = kind, !.ph = "new", !.body = body,
                      !.input = input, !.clerkId = clerkId]

SubKey(q, loc) == <<loc, IF loc = "insert" THEN q.i ELSE 0>>

Bump(f, key) ==
    IF key \in DOMAIN f THEN [f EXCEPT ![key] = @ + 1] ELSE f @@ (key :> 1)

\* the handler sends the statement of place loc and awaits it
At(q, loc) ==
    [q EXCEPT !.pc = loc, !.ph = "wait", !.n = @ + 1, !.aw = q.n + 1,
              !.subs = Bump(@, SubKey(q, loc))]

\* executeWithRetry(fn, retries = 3, delay = 1000) on the statement of loc,
\* or the bare statement where the handler does not wrap it
Call(q, loc) ==
    At([q EXCEPT !.ir = IF Retried(q.kind, loc) THEN Retries ELSE 0,
                 !.idl = InitialDelay, !.waits = <<>>], loc)

\* the fields of the JSON object each handler sends with each status
Json(kind, code) ==
    CASE code = 404 -> {"error"}
      [] code = 400 -> {"success", "message"}
      [] code = 500 -> IF kind = "post" THEN {"success", "message", "details"}
                       ELSE {"error", "details"}
      [] kind = "put"    -> {"message", "custom_id"}
      [] kind = "export" -> {"message", "quotation"}
      [] kind = "del"    -> {"message"}
      [] kind = "post"   -> {"success", "message", "driver"}
      [] kind = "list"   -> {"drivers", "totalCount", "currentPage", "totalPages"}
      [] kind = "orders" -> {"orders", "totalCount", "currentPage", "totalPages", "hasMore"}
      [] kind = "get"    -> {"custom_id", "total_price", "products", "salesRep"}

Respond(q, code) ==
    [q EXCEPT !.code = code, !.rkeys = Json(q.kind, code), !.nresp = @ + 1, !.aw = 0]

FinishLeak(q) ==
    [q EXCEPT !.ph = IF q.held /\ ~q.exc THEN "fin" ELSE "done", !.aw = 0]

\* the handler returns: its finally block (client.release()) is what remains
Finish(q) == [q EXCEPT !.ph = IF q.held THEN "fin" ELSE "done", !.aw = 0]

\* catch (error) { await client.query('ROLLBACK'); ... }
PutCatch(q) == Call(q, "catch")

\* an error leaves the executeWithRetry around the statement (or a bare statement)
Throw(q) ==
    CASE q.kind = "put" ->
             IF q.pc = "catch" THEN Finish([q EXCEPT !.exc = TRUE])
             ELSE IF q.orr > 0 THEN [q EXCEPT !.ph = "osleep", !.aw = 0]
             ELSE PutCatch(q)
      [] OTHER -> Finish(Respond(q, 500))

\* the awaited statement was rejected (an error, or the timeout won the race)
Fail(q) ==
    IF q.ir > 0 THEN [q EXCEPT !.ph = "sleep", !.aw = 0] ELSE Throw(q)

\* the handler's code after the awaited statement resolved with res
OnOk(q, res) ==
    CASE q.kind = "put" ->
           (CASE q.pc = "begin"    -> Call(q, "select")
              [] q.pc = "select"   ->
                     IF res.rows = 0 THEN Call(q, "rb404")
                     ELSE Call([q EXCEPT !.ncid = NextCustomId(res.cid)], "update")
              [] q.pc = "rb404"    -> Finish(Respond(q, 404))
              [] q.pc = "update"   ->
                     IF Len(q.body) > 0 THEN Call(q, "delitems") ELSE Call(q, "commit")
              [] q.pc = "delitems" -> Call([q EXCEPT !.i = 1], "insert")
              [] q.pc = "insert"   ->
                     IF q.i < Len(q.body) THEN Call([q EXCEPT !.i = @ + 1], "insert")
                     ELSE Call(q, "commit")
              [] q.pc = "commit"   -> Finish(Respond([q EXCEPT !.rcid = q.ncid], 200))
              [] q.pc = "catch"    -> Finish(Respond(q, 500)))
      [] q.kind = "del" ->
           (CASE q.pc = "d_items" -> Call(q, "d_hdr")
              [] q.pc = "d_hdr"   -> Finish(Respond(q, IF res.rows = 0 THEN 404 ELSE 200)))
      [] q.kind = "export" ->
           Finish(Respond(q, IF res.rows = 0 THEN 404 ELSE 200))
      [] q.kind = "post" ->
           (CASE q.pc = "chk"   ->
                     IF res.rows > 0 THEN Finish(Respond(q, 400))
                     ELSE IF ~q.clerkId THEN Call(q, "clerk")
                     ELSE Call(q, "ins")
              [] q.pc = "clerk" ->
                     IF res.rows = 0 THEN Finish(Respond(q, 500)) ELSE Call(q, "ins")
              [] q.pc = "ins"   -> Finish(Respond(q, 200)))
      [] q.kind = "list" ->
           Finish(Respond(q, 200))
      [] q.kind = "get" ->
           (CASE q.pc = "g_hdr"   ->
                     IF res.rows = 0 THEN Finish(Respond(q, 404))
                     ELSE Call([q EXCEPT !.ghdr = res.hdr], "g_items")
              [] q.pc = "g_items" -> Call([q EXCEPT !.gitems = res.items], "g_rep")
              [] q.pc = "g_rep"   -> Finish(Respond(q, 200)))
      [] q.kind = "orders" ->
           (CASE q.pc = "count" -> Call(q, "olist")
              [] q.pc = "olist" ->
                     IF res.rows > 0 THEN Call(q, "loc") ELSE Finish(Respond(q, 200))
              [] q.pc = "loc"   -> Finish(Respond(q, 200)))

\* the first statement of each handler
FirstLoc(kind) ==
    CASE kind = "put"    -> "begin"
      [] kind = "del"    -> "d_items"
      [] kind = "export" -> "export"
      [] kind = "post"   -> "chk"
      [] kind = "list"   -> "list"
      [] kind = "orders" -> "count"
      [] kind = "get"    -> "g_hdr"

\* handlers that take a client from the pool (the delete handler uses pool.query)
UsesClient(kind) == kind \in {"put", "export", "post", "list", "orders"}

(* ---------------------------------------------------------------------- *)
(* Statements in flight, in the order they were sent.                      *)
(* ---------------------------------------------------------------------- *)
StmtOf(r, q) ==
    [c |-> r, n |-> q.n, loc |-> q.pc, k |-> q.i, auto |-> Auto(q.kind, q.pc),
     cid |-> q.ncid]

\* the statement, if any, the step from old to new of request r sent
Sent(r, old, new) == IF new.n > old.n THEN <<StmtOf(r, new)>> ELSE <<>>

Without(seq, j) == SubSeq(seq, 1, j - 1) \o SubSeq(seq, j + 1, Len(seq))

\* a client connection runs its statements one at a time, in the order sent
Runnable(j) ==
    /\ queue[j].c \notin budget.stalled
    /\ queue[j].auto \/ \A i \in 1..(j - 1) : queue[i].c # queue[j].c \/ queue[i].auto
    /\ ~Blocked(db, queue[j])

Awaited(s) == req[s.c].ph = "wait" /\ req[s.c].aw = s.n

ClerkAfter(s) ==
    IF Stmt(s.loc) = "CLERK_CREATE_USER" /\ req[s.c].input.email \notin clerk
    THEN clerk \cup {req[s.c].input.email} ELSE clerk

\* what the identity provider answers: it refuses an address it already holds
ClerkResult(s, res) ==
    IF Stmt(s.loc) = "CLERK_CREATE_USER" /\ req[s.c].input.email \in clerk
    THEN Result(0, <<>>) ELSE res

(* ---------------------------------------------------------------------- *)
(* Actions                                                                 *)
(* ---------------------------------------------------------------------- *)

\* the handler starts: pool.connect() where it uses a client, then its first statement
Start(r) ==
    /\ req[r].ph = "new"
    /\ LET c == [req[r] EXCEPT !.held = UsesClient(req[r].kind),
                               !.acq = IF UsesClient(req[r].kind) THEN 1 ELSE 0,
                               !.orr = Retries, !.odl = InitialDelay]
           q == IF c.kind = "post" /\ ~Accepts(c.input) THEN Finish(Respond(c, 400))
                ELSE Call(c, FirstLoc(c.kind))
       IN  /\ req' = [req EXCEPT ![r] = q]
           /\ queue' = queue \o Sent(r, req[r], q)
    /\ UNCHANGED <<db, clerk, budget, init>>

\* pool.connect() rejects, before the handler's try: nothing catches it
ConnectFail(r) ==
    /\ req[r].ph = "new"
    /\ UsesClient(req[r].kind)
    /\ budget.err > 0
    /\ req' = [req EXCEPT ![r] = [@ EXCEPT !.ph = "done", !.exc = TRUE]]
    /\ budget' = [budget EXCEPT !.err = @ - 1]
    /\ UNCHANGED <<db, queue, clerk, init>>

\* the database runs a statement; its result reaches the handler if it still awaits it
Exec(j) ==
    /\ j \in 1..Len(queue)
    /\ Runnable(j)
    /\ LET s   == queue[j]
           ok  == ~Refused(db, s)
           a   == Apply(db, s, req[s.c])
           q   == IF ~Awaited(s) THEN req[s.c]
                  ELSE IF ok THEN OnOk(req[s.c], ClerkResult(s, a.res))
                  ELSE Fail(req[s.c])
       IN  /\ db' = IF ok THEN a.db ELSE AfterError(db, s)
           /\ clerk' = IF ok THEN ClerkAfter(s) ELSE clerk
           /\ req' = [req EXCEPT ![s.c] = q]
           /\ queue' = Without(queue, j) \o Sent(s.c, req[s.c], q)
    /\ UNCHANGED <<budget, init>>

\* the database (or the connection to it) fails a statement
ExecErr(j) ==
    /\ j \in 1..Len(queue)
    /\ Runnable(j)
    /\ budget.err > 0
    /\ ~Refused(db, queue[j])
    /\ LET s == queue[j]
           q == IF Awaited(s) THEN Fail(req[s.c]) ELSE req[s.c]
       IN  /\ db' = AfterError(db, s)
           /\ req' = [req EXCEPT ![s.c] = q]
           /\ queue' = Without(queue, j) \o Sent(s.c, req[s.c], q)
    /\ budget' = [budget EXCEPT !.err = @ - 1]
    /\ UNCHANGED <<clerk, init>>

\* withTimeout: the timer wins the race; the statement stays in flight
Timeout(r) ==
    /\ req[r].ph = "wait"
    /\ Timed(req[r].kind, req[r].pc)
    /\ budget.tmo > 0 \/ r \in budget.stalled
    /\ LET q == Fail(req[r])
       IN  /\ req' = [req EXCEPT ![r] = q]
           /\ queue' = queue \o Sent(r, req[r], q)
    /\ budget' = [budget EXCEPT !.tmo = IF r \in budget.stalled THEN @ ELSE @ - 1]
    /\ UNCHANGED <<db, clerk, init>>

\* executeWithRetry's catch: after the delay, fn again with retries - 1, delay * 2
Wake(r) ==
    /\ req[r].ph = "sleep"
    /\ LET q == At([req[r] EXCEPT !.ir = @ - 1, !.waits = Append(@, req[r].idl),
                                  !.idl = 2 * @], req[r].pc)
       IN  /\ req' = [req EXCEPT ![r] = q]
           /\ queue' = queue \o Sent(r, req[r], q)
    /\ UNCHANGED <<db, clerk, budget, init>>

\* the executeWithRetry around the revision write's whole body runs the body again
OuterWake(r) ==
    /\ req[r].ph = "osleep"
    /\ LET q == Call([req[r] EXCEPT !.orr = @ - 1, !.owaits = Append(@, req[r].odl),
                                    !.odl = 2 * @], "begin")
       IN  /\ req' = [req EXCEPT ![r] = q]
           /\ queue' = queue \o Sent(r, req[r], q)
    /\ UNCHANGED <<db, clerk, budget, init>>

\* finally { client.release() }
Release(r) ==
    /\ req[r].ph = "fin"
    /\ req' = [req EXCEPT ![r] = [@ EXCEPT !.ph = "done", !.held = FALSE, !.nrel = @ + 1]]
    /\ UNCHANGED <<db, queue, clerk, budget, init>>

\* a connection's statements never complete from here on
Stall(r) ==
    /\ budget.stall > 0
    /\ req[r].ph = "wait"
    /\ r \notin budget.stalled
    /\ budget' = [budget EXCEPT !.stall = @ - 1, !.stalled = @ \cup {r}]
    /\ UNCHANGED <<db, queue, req, clerk, init>>

(* ---------------------------------------------------------------------- *)
(* Initial states                                                          *)
(* ---------------------------------------------------------------------- *)
Header(cid, sk, sv, mg, exported) ==
    [ex |-> TRUE, cid |-> cid, by |-> 0, price |-> 100, vat |-> 15, subtotal |-> 115,
     sk |-> sk, sv |-> sv, mg |-> mg, exported |-> exported]

Headers ==
    { Header(<<"Q">>, "accepted", "accepted", "accepted", FALSE),
      Header(<<"Q", " ", "R", "e", "v", "9">>, "accepted", "rejected", "pending", TRUE) }

SomeHeader == Header(<<"Q">>, "accepted", "accepted", "accepted", FALSE)

\* the line item a stored quotation starts with
OldRows ==
    << [by |-> 0, k |-> 1, price |-> Num(<<"1">>), quantity |-> Num(<<"1">>),
        vat |-> 15, subtotal |-> 115, ins |-> 0, del |-> 0] >>

\* the products lists of the incoming revision writes
Payloads ==
    { <<>>,
      << [price |-> Num(<<"2">>), quantity |-> Num(<<"3">>)] >>,
      << [price |-> Str(<<"a", "b">>), quantity |-> Num(<<"1">>)],
         [price |-> Num(<<"1">>), quantity |-> Str(<<"2">>)] >>,
      << [price |-> Missing, quantity |-> Num(<<"2">>)] >> }

Database(hdr, rows, drivers, orders) ==
    [hdr |-> hdr, hp |-> NoPending, rows |-> rows, tx |-> [c \in Reqs |-> "none"],
     drivers |-> drivers, orders |-> orders]

Quotations ==
    { Database(h, OldRows, <<>>, 0) : h \in Headers } \cup { Database(NoHeader, <<>>, <<>>, 0) }

Budget(tmo, err, stall) == [tmo |-> tmo, err |-> err, stall |-> stall, stalled |-> {}]

\* one revision write, with every kind of fault
Init ==
    /\ db \in Quotations
    /\ init = db
    /\ queue = <<>>
    /\ clerk = {}
    /\ budget = Budget(MaxTimeouts, MaxErrors, MaxStalls)
    /\ \E b \in Payloads :
          req = [r \in Reqs |-> IF r = 1 THEN NewRequest("put", b, NoInput, FALSE) ELSE NoRequest]

Next ==
    \/ \E r \in Reqs : Start(r)
    \/ \E r \in Reqs : ConnectFail(r)
    \/ \E j \in 1..Len(queue) : Exec(j)
    \/ \E j \in 1..Len(queue) : ExecErr(j)
    \/ \E r \in Reqs : Timeout(r)
    \/ \E r \in Reqs : Wake(r)
    \/ \E r \in Reqs : OuterWake(r)
    \/ \E r \in Reqs : Release(r)
    \/ \E r \in Reqs : Stall(r)

Spec == Init /\ [][Next]_vars

\* the actions of runs in which every statement sent completes
NextConc ==
    \/ \E r \in Reqs : Start(r)
    \/ \E r \in Reqs : ConnectFail(r)
    \/ \E j \in 1..Len(queue) : Exec(j)
    \/ \E j \in 1..Len(queue) : ExecErr(j)
    \/ \E r \in Reqs : Timeout(r)
    \/ \E r \in Reqs : Wake(r)
    \/ \E r \in Reqs : OuterWake(r)
    \/ \E r \in Reqs : Release(r)

OneItem == << [price |-> Num(<<"2">>), quantity |-> Num(<<"3">>)] >>

TwoItems ==
    << [price |-> Str(<<"a", "b">>), quantity |-> Num(<<"1">>)],
       [price |-> Num(<<"1">>), quantity |-> Str(<<"2">>)] >>

\* two revision writes of the same quotation, both with line items
InitPair ==
    /\ db = Database(SomeHeader, OldRows, <<>>, 0)
    /\ init = db
    /\ queue = <<>>
    /\ clerk = {}
    /\ budget = Budget(MaxTimeoutsConc, MaxErrors, 0)
    /\ req = [r \in Reqs |-> NewRequest("put", IF r = 1 THEN OneItem ELSE TwoItems, NoInput, FALSE)]

SpecPair == InitPair /\ [][NextConc]_vars

\* a revision write and a delete of the same quotation
InitDelete ==
    /\ db \in { Database(h, OldRows, <<>>, 0) : h \in Headers }
    /\ init = db
    /\ queue = <<>>
    /\ clerk = {}
    /\ budget = Budget(MaxTimeoutsConc, MaxErrors, 0)
    /\ \E b \in {<<>>, OneItem} :
          req = [r \in Reqs |-> IF r = 1 THEN NewRequest("put", b, NoInput, FALSE)
                                ELSE NewRequest("del", <<>>, NoInput, FALSE)]

SpecDelete == InitDelete /\ [][NextConc]_vars

SomeEmail == <<"a", "@", "x", ".", "i", "o">>

SomePhone == <<"+", "9", "6", "6", " ", "5", "0", "-", "1", "2", "3">>

SomeDriver == [name |-> <<"A">>, email |-> SomeEmail, phone |-> SomePhone, role |-> Undefined]

\* registration bodies: one the checks accept, and ones each check refuses
Drivers ==
    { SomeDriver,
      [SomeDriver EXCEPT !.role = "admin"],
      [SomeDriver EXCEPT !.name = <<>>],
      [SomeDriver EXCEPT !.role = "manager"],
      [SomeDriver EXCEPT !.email = <<"b", "a", "d">>, !.phone = <<"1", "2", "3">>],
      [SomeDriver EXCEPT !.email = <<"a", "@", "x", ".">>],
      [SomeDriver EXCEPT !.email = <<"a", "@", "@", "x", ".", "i", "o">>],
      [SomeDriver EXCEPT !.phone = <<"1", "2", "3", "4", "5", "6", "7">>],
      [SomeDriver EXCEPT !.phone = <<"1", "2", "3", "4", "5", "6", "7", "x">>] }

\* two registrations of the same address
InitDrivers ==
    /\ db \in { Database(NoHeader, <<>>, ds, 0) :
                   ds \in { <<>>, <<[email |-> SomeEmail, by |-> 0]>> } }
    /\ init = db
    /\ queue = <<>>
    /\ clerk = {}
    /\ budget = Budget(MaxTimeoutsConc, MaxErrors, 0)
    /\ \E c1 \in BOOLEAN, c2 \in BOOLEAN :
          req = [r \in Reqs |-> NewRequest("post", <<>>, SomeDriver, IF r = 1 THEN c1 ELSE c2)]

NextDrivers ==
    \/ \E r \in Reqs : Start(r)
    \/ \E r \in Reqs : ConnectFail(r)
    \/ \E j \in 1..Len(queue) : Exec(j)
    \/ \E j \in 1..Len(queue) : ExecErr(j)
    \/ \E r \in Reqs : Timeout(r)
    \/ \E r \in Reqs : Wake(r)
    \/ \E r \in Reqs : Release(r)

SpecDrivers == InitDrivers /\ [][NextDrivers]_vars

\* one request of each handler, and the stored data it meets
PoolScenarios ==
    { [q |-> NewRequest("put", b, NoInput, FALSE), d |-> Database(h, OldRows, <<>>, 0)] :
          b \in {<<>>, OneItem}, h \in {SomeHeader, NoHeader} }
      \cup { [q |-> NewRequest("export", <<>>, NoInput, FALSE), d |-> Database(h, OldRows, <<>>, 0)] :
          h \in {SomeHeader, NoHeader} }
      \cup { [q |-> NewRequest("post", <<>>, i, c), d |-> Database(NoHeader, <<>>, ds, 0)] :
          i \in Drivers, c \in BOOLEAN, ds \in { <<>>, <<[email |-> SomeEmail, by |-> 0]>> } }
      \cup { [q |-> NewRequest("list", <<>>, NoInput, FALSE), d |-> Database(NoHeader, <<>>, ds, 0)] :
          ds \in { <<>>, <<[email |-> SomeEmail, by |-> 0]>> } }
      \cup { [q |-> NewRequest("orders", <<>>, NoInput, FALSE), d |-> Database(NoHeader, <<>>, <<>>, n)] :
          n \in {0, 1} }
      \cup { [q |-> NewRequest(k, <<>>, NoInput, FALSE), d |-> Database(h, OldRows, <<>>, 0)] :
          k \in {"del", "get"}, h \in {SomeHeader, NoHeader} }

InitPool ==
    /\ \E sc \in PoolScenarios :
          /\ db = sc.d
          /\ req = [r \in Reqs |-> IF r = 1 THEN sc.q ELSE NoRequest]
    /\ init = db
    /\ queue = <<>>
    /\ clerk = {}
    /\ budget = Budget(MaxTimeoutsConc, MaxErrorsPool, MaxStalls)

SpecPool == InitPool /\ [][Next]_vars

\* a revision write and a read of the same quotation
InitGet ==
    /\ db = Database(SomeHeader, OldRows, <<>>, 0)
    /\ init = db
    /\ queue = <<>>
    /\ clerk = {}
    /\ budget = Budget(MaxTimeoutsConc, MaxErrors, 0)
    /\ req = [r \in Reqs |-> IF r = 1 THEN NewRequest("put", OneItem, NoInput, FALSE)
                            ELSE NewRequest("get", <<>>, NoInput, FALSE)]

SpecGet == InitGet /\ [][NextConc]_vars

\* two exports of the same quotation
InitExport ==
    /\ db \in Quotations
    /\ init = db
    /\ queue = <<>>
    /\ clerk = {}
    /\ budget = Budget(MaxTimeoutsConc, MaxErrors, 0)
    /\ req = [r \in Reqs |-> NewRequest("export", <<>>, NoInput, FALSE)]

SpecExport == InitExport /\ [][NextDrivers]_vars

(* ---------------------------------------------------------------------- *)
(* What a read of the quotation returns: the committed header and the      *)
(* committed line items.                                                   *)
(* ---------------------------------------------------------------------- *)
ReadBack(d) == [hdr |-> d.hdr, rows |-> CommittedRows(d.rows)]

Puts == {r \in Reqs : req[r].kind = "put"}

(* ---------------------------------------------------------------------- *)
(* C1: after a revision write that answered 200, storekeeperaccept,        *)
(* supervisoraccept and manageraccept of the quotation are all 'pending',  *)
(* whatever they were before.                                              *)
(* ---------------------------------------------------------------------- *)
C1_ApprovalsPendingAfterRevision ==
    \A r \in Puts :
        req[r].code = 200 =>
            /\ db.hdr.ex
            /\ db.hdr.sk = "pending" /\ db.hdr.sv = "pending" /\ db.hdr.mg = "pending"

C1_Witness ==
    \E r \in Puts :
        /\ req[r].code = 200
        /\ init.hdr.sk = "accepted" /\ init.hdr.sv = "rejected"
        /\ db.hdr.sk = "pending"

(* ---------------------------------------------------------------------- *)
(* C2: a revision write that answered 200, alone on its quotation, leaves  *)
(* (and returns) the successor of the custom_id stored when it began: one  *)
(* revision further, whatever timeouts and retries happened inside it.     *)
(* ---------------------------------------------------------------------- *)
C2_RevisionAdvancesByOne ==
    \A r \in Puts :
        req[r].code = 200 =>
            /\ db.hdr.cid = NextCustomId(init.hdr.cid)
            /\ req[r].rcid = db.hdr.cid

(* ---------------------------------------------------------------------- *)
(* C3: a revision write that answered with an error after a statement of   *)
(* its transaction failed or timed out leaves the quotation as it was: a   *)
(* read returns the custom_id, totals, approval flags and line items of    *)
(* before the request.                                                     *)
(* ---------------------------------------------------------------------- *)
C3_FailedRevisionLeavesNoTrace ==
    \A r \in Puts : req[r].code = 500 => ReadBack(db) = ReadBack(init)

C3_Witness ==
    \E r \in Puts :
        /\ req[r].code = 500
        /\ init.hdr.ex
        /\ <<"insert", 1>> \in DOMAIN req[r].subs

(* ---------------------------------------------------------------------- *)
(* C4: with two revision writes of one quotation in flight, each carrying  *)
(* line items, every committed state pairs a header with the line items of *)
(* the same request, all of them: never a header of one request with line  *)
(* items, or part of the line items, of the other.                         *)
(* ---------------------------------------------------------------------- *)
WrittenBy(d) == ReadBack(d).hdr.by

C4_HeaderAndItemsOfOneRequest ==
    LET rows == ReadBack(db).rows
        w    == WrittenBy(db)
    IN  /\ \A i \in 1..Len(rows) : rows[i].by = w
        /\ w = 0 => ReadBack(db) = ReadBack(init)
        /\ w # 0 => \A k \in 1..Len(req[w].body) : \E i \in 1..Len(rows) : rows[i].k = k

C4_Witness ==
    /\ req[1].code = 200
    /\ req[2].code = 200
    /\ WrittenBy(db) = 1
    /\ Len(ReadBack(db).rows) > 0

(* ---------------------------------------------------------------------- *)
(* C5: after a revision write that answered 200 the stored total_subtotal  *)
(* is total_price + total_vat, the stored total_vat is 15% of total_price, *)
(* and total_price is the sum of price x quantity over the incoming items, *)
(* a missing or non-numeric price or quantity counting as 0.               *)
(* ---------------------------------------------------------------------- *)
C5_AllDigits(s) == s # <<>> /\ \A i \in 1..Len(s) : IsDigit(s[i])

C5_Value(x) == IF x.t # "missing" /\ C5_AllDigits(x.v) THEN ParseInt(x.v) ELSE 0

RECURSIVE C5_Sum(_)
C5_Sum(products) ==
    IF products = <<>> THEN 0
    ELSE C5_Value(products[1].price) * C5_Value(products[1].quantity)
           + C5_Sum(SubSeq(products, 2, Len(products)))

C6_DeletedStaysDeleted ==
    \A r \in Reqs :
        req[r].kind = "del" /\ req[r].code = 200 =>
            ~ReadBack(db).hdr.ex /\ ReadBack(db).rows = <<>>

(* ---------------------------------------------------------------------- *)
(* C7: the drivers table never holds two records with one email, for any   *)
(* interleaving of registrations, and a registration answered with the     *)
(* client error created no record; where the email already has a record,  *)
(* no record and no external identity is created.                          *)
(* ---------------------------------------------------------------------- *)
C7_OneDriverPerEmail ==
    /\ \A i \in 1..Len(db.drivers) : CountEmail(db.drivers, db.drivers[i].email) <= 1
    /\ \A r \in Reqs :
          req[r].kind = "post" /\ req[r].code = 400 =>
              \A i \in 1..Len(db.drivers) : db.drivers[i].by # r
    /\ \A r \in Reqs :
          req[r].kind = "post" /\ CountEmail(init.drivers, req[r].input.email) > 0 =>
              req[r].code \in {0, 400, 500} /\ db.drivers = init.drivers /\ clerk = {}

(* ---------------------------------------------------------------------- *)
(* C8: no handler waits for ever on a statement that never completes: when *)
(* nothing more can happen, no request is still waiting for a statement    *)
(* (the timeout race has failed the stuck statement and the handler has    *)
(* gone on to answer).                                                     *)
(* ---------------------------------------------------------------------- *)
C8_NoHandlerBlockedForever ==
    (~ENABLED Next) => \A r \in Reqs : req[r].ph # "wait"

(* ---------------------------------------------------------------------- *)
(* C9: within one request no statement is sent more than 4 times (the      *)
(* first attempt and 3 retries), and the waits before the retries of a     *)
(* statement are 1000, 2000 and 4000 ms in that order.                     *)
(* ---------------------------------------------------------------------- *)
C9_StatementSentAtMostFourTimes ==
    \A r \in Reqs :
        /\ \A key \in DOMAIN req[r].subs : req[r].subs[key] <= 4
        /\ req[r].waits = SubSeq(<<1000, 2000, 4000>>, 1, Len(req[r].waits))

(* ---------------------------------------------------------------------- *)
(* C10: a handler's pooled connection is released exactly once on every    *)
(* way out (answer sent, or exception, a failing ROLLBACK included): never *)
(* twice, and once all requests have finished none is still checked out.   *)
(* ---------------------------------------------------------------------- *)
CheckedOut == {r \in Reqs : req[r].held}

C10_ReleasedExactlyOnce ==
    /\ \A r \in Reqs :
          /\ req[r].nrel <= req[r].acq
          /\ req[r].held => req[r].acq = 1 /\ req[r].nrel = 0
          /\ req[r].ph = "done" => req[r].nrel = req[r].acq
    /\ (\A r \in Reqs : req[r].ph = "done") => CheckedOut = {}

C10_Witness ==
    /\ \A r \in Reqs : req[r].ph = "done"
    /\ \E r \in Reqs : req[r].kind = "put" /\ req[r].exc /\ req[r].nrel = 1

(* ---------------------------------------------------------------------- *)
(* C11: a request gets at most one response, a request whose handler has   *)
(* ended has got exactly one, and every response with an error status is   *)
(* a JSON object with an `error` field.                                    *)
(* ---------------------------------------------------------------------- *)
C11_OneErrorResponsePerFailure ==
    \A r \in Reqs :
        /\ req[r].nresp <= 1
        /\ req[r].kind # "none" /\ req[r].ph = "done" => req[r].nresp = 1
        /\ req[r].code >= 400 => "error" \in req[r].rkeys

(* ---------------------------------------------------------------------- *)
(* C12: a registration whose body fails a check (name, email or phone      *)
(* missing, role not allowed, malformed email or phone) is answered 400    *)
(* and nothing else happens: no statement is sent, the identity provider   *)
(* is not called and the drivers table is as before.                       *)
(* ---------------------------------------------------------------------- *)
C12_Malformed(input) ==
    \/ input.name = <<>> \/ input.email = <<>> \/ input.phone = <<>>
    \/ input.role \notin {Undefined, "driver", "admin", "dispatcher"}
    \/ ~emailRegex(input.email)
    \/ ~phoneRegex(input.phone)

C12_InvalidInputRejected ==
    \A r \in Reqs :
        req[r].kind = "post" /\ C12_Malformed(req[r].input) =>
            /\ req[r].code \in {0, 400}
            /\ req[r].ph # "new" /\ ~req[r].exc => req[r].code = 400
            /\ req[r].subs = <<>>
            /\ clerk = {}
            /\ db.drivers = init.drivers

C12_Witness ==
    \E r \in Reqs :
        /\ req[r].kind = "post"
        /\ req[r].input.name # <<>>
        /\ emailRegex(req[r].input.email)
        /\ ~phoneRegex(req[r].input.phone)
        /\ req[r].code = 400
        /\ req[r].ph = "done"

(* ---------------------------------------------------------------------- *)
(* C13: an export of a stored quotation answers 200 whether or not the     *)
(* quotation was exported before, and 404 only when no quotation is        *)
(* stored; after a 200 `exported` is true; one export or two leave the     *)
(* same quotation: the one of before with `exported` true, its custom_id,  *)
(* totals, approval flags and line items untouched.                        *)
(* ---------------------------------------------------------------------- *)
Exports == {r \in Reqs : req[r].kind = "export"}

C13_ExportIdempotent ==
    /\ \A r \in Exports :
          /\ req[r].code \in {0, 200, 404, 500}
          /\ req[r].code = 200 =>
                init.hdr.ex /\ db.hdr = [init.hdr EXCEPT !.exported = TRUE]
          /\ req[r].code = 404 => ~init.hdr.ex
    /\ Exports # {} =>
          /\ db.hdr \in {init.hdr, IF init.hdr.ex THEN [init.hdr EXCEPT !.exported = TRUE]
                                    ELSE init.hdr}
          /\ ReadBack(db).rows = ReadBack(init).rows

C13_Witness ==
    /\ Exports = Reqs
    /\ \A r \in Reqs : req[r].code = 200 /\ req[r].ph = "done"
    /\ ~init.hdr.exported
    /\ db.hdr = [init.hdr EXCEPT !.exported = TRUE]

(* ---------------------------------------------------------------------- *)
(* C14: after a revision write that answered 200 the header totals are the *)
(* sums over the line items stored for the quotation: total_price the sum  *)
(* of price x quantity, total_vat and total_subtotal the sums of the rows' *)
(* vat and subtotal; also when the request carried no products.            *)
(* ---------------------------------------------------------------------- *)
RECURSIVE C14_Sums(_)
C14_Sums(rows) ==
    IF rows = <<>> THEN [price |-> 0, vat |-> 0, subtotal |-> 0]
    ELSE LET rest == C14_Sums(Tail(rows))
         IN  [price    |-> rest.price + TotalPriceForProduct(rows[1]),
              vat      |-> rest.vat + rows[1].vat,
              subtotal |-> rest.subtotal + rows[1].subtotal]

C14_TotalsMatchStoredItems ==
    \A r \in Puts :
        req[r].code = 200 =>
            LET sums == C14_Sums(ReadBack(db).rows)
            IN  /\ db.hdr.price = sums.price
                /\ db.hdr.vat = sums.vat
                /\ db.hdr.subtotal = sums.subtotal

(* ---------------------------------------------------------------------- *)
(* C15: after a revision write with a non-empty products list answered     *)
(* 200, the stored line items are the incoming items, each once and in the *)
(* incoming order, whatever timed out or failed and was retried.           *)
(* ---------------------------------------------------------------------- *)
C15_ItemsStoredOnce ==
    \A r \in Puts :
        req[r].code = 200 /\ Len(req[r].body) > 0 =>
            LET rows == ReadBack(db).rows
            IN  /\ Len(rows) = Len(req[r].body)
                /\ \A k \in 1..Len(rows) :
                      /\ rows[k].by = r
                      /\ rows[k].k = k
                      /\ rows[k].price = req[r].body[k].price
                      /\ rows[k].quantity = req[r].body[k].quantity

(* ---------------------------------------------------------------------- *)
(* C16: what a read of a quotation returns with 200, beside a revision     *)
(* write of the same quotation, is one committed state: the header and the *)
(* line items of before the write, or the header and all the line items    *)
(* the write committed; never the header of one with the items of the      *)
(* other.                                                                  *)
(* ---------------------------------------------------------------------- *)
Gets == {r \in Reqs : req[r].kind = "get"}

C16_ReadOfOneCommittedState ==
    \A r \in Gets :
        req[r].code = 200 =>
            LET w    == req[r].ghdr.by
                rows == req[r].gitems
            IN  /\ \A i \in 1..Len(rows) : rows[i].by = w
                /\ w = 0 => req[r].ghdr = init.hdr /\ rows = ReadBack(init).rows
                /\ w # 0 => \A k \in 1..Len(req[w].body) :
                                \E i \in 1..Len(rows) : rows[i].k = k

(* ---------------------------------------------------------------------- *)
(* C17: revision writes of one quotation that answered 200 returned        *)
(* different custom_ids, and once k of them have answered 200 and all      *)
(* requests have ended, the stored custom_id of a quotation that began     *)
(* without a revision suffix ends in Rev<k>.                               *)
(* ---------------------------------------------------------------------- *)
C17_Revised == {r \in Puts : req[r].code = 200}

C17_DistinctRevisions ==
    /\ \A r1 \in C17_Revised, r2 \in C17_Revised :
          r1 # r2 => req[r1].rcid # req[r2].rcid
    /\ (\A r \in Reqs : req[r].ph = "done") /\ C17_Revised # {}
           /\ ~RevisionMatch(init.hdr.cid) =>
          db.hdr.cid = init.hdr.cid \o <<" ", "R", "e", "v">>
                           \o ToDigits(Cardinality(C17_Revised))

(* ---------------------------------------------------------------------- *)
(* C18: with no other delete of the quotation, a delete answers 404 only   *)
(* if no quotation was stored when it began, also when its header delete   *)
(* timed out, completed in the database and was sent again.                *)
(* ---------------------------------------------------------------------- *)
Deletes == {r \in Reqs : req[r].kind = "del"}

C18_NotFoundOnlyIfAbsent ==
    \A r \in Deletes : req[r].code = 404 => ~init.hdr.ex

====
